---- MODULE Spec2Model ----
(***************************************************************************)
(* Plugin subsystem of OneCodePlant: the registry file, the managed plugin *)
(* directory, PluginManager (install, remove, list, info, refresh) and the *)
(* construction of PluginLoader.                                           *)
(*                                                                         *)
(* Strings are modelled structurally.  A path string is the sequence of    *)
(* its "/"-separated segments ("/srv/alpha" is <<"", "srv", "alpha">>), a  *)
(* source string is a scheme prefix plus such a sequence, and a segment is *)
(* split at its dots by DotSplit where the code looks inside a name.       *)
(***************************************************************************)
EXTENDS Integers, Sequences, FiniteSets, TLC

VARIABLES
    file,       \* the registry file onecode/plugin_registry.json
    fs,         \* the directories that exist (absolute, normalised paths)
    pkgs,       \* the packages the package installer has installed
    registry,   \* PluginLoader.registry (in memory), NoLoader before construction
    loaded,     \* PluginLoader.loaded_plugins: directory name -> instance
    call,       \* the operation that ran last, with its arguments and outcome
    ncalls      \* how many operations have run

vars == <<file, fs, pkgs, registry, loaded, call, ncalls>>

----------------------------------------------------------------------------
(* Names and their dotted structure                                        *)

\* "." splits a file name into components, as str.rfind('.') and
\* str.replace('.git', '') see it.
DotSplit(seg) ==
    CASE seg = ""           -> <<"">>
      [] seg = "."          -> <<"", "">>
      [] seg = ".."         -> <<"", "", "">>
      [] seg = "alpha.git"  -> <<"alpha", "git">>
      [] seg = "beta.git"   -> <<"beta", "git">>
      [] seg = "github.com" -> <<"github", "com">>
      [] OTHER              -> <<seg>>

Segments ==
    {"", ".", "..", "alpha", "beta", "ext", "srv", "work", "owner", "onecode",
     "plugins", "alpha.git", "beta.git", "github.com"}

DotJoin(comps) == CHOOSE s \in Segments : DotSplit(s) = comps

\* str.startswith('.') on one segment
SegStartsWithDot(seg) == Len(DotSplit(seg)) >= 2 /\ DotSplit(seg)[1] = ""

\* PurePath.stem: the name without its last suffix; a leading or a trailing
\* dot starts no suffix.
Stem(seg) ==
    LET c == DotSplit(seg)
        n == Len(c)
    IN  IF n >= 2 /\ c[n] # "" /\ ~(n = 2 /\ c[1] = "")
        THEN DotJoin(SubSeq(c, 1, n - 1))
        ELSE seg

\* str.replace('.git', ''): every ".git" inside the name is dropped.
RECURSIVE DropGit(_)
DropGit(c) ==
    IF Len(c) <= 1 THEN c
    ELSE LET front == DropGit(SubSeq(c, 1, Len(c) - 1))
         IN  IF c[Len(c)] = "git" THEN front ELSE Append(front, c[Len(c)])

ReplaceDotGit(seg) == DotJoin(DropGit(DotSplit(seg)))

\* PurePath.name: the last segment once "." and empty segments are dropped
\* (".." is kept); "" when nothing is left.
PathName(segs) ==
    LET parts == SelectSeq(segs, LAMBDA s : s \notin {"", "."})
    IN  IF parts = <<>> THEN "" ELSE parts[Len(parts)]

----------------------------------------------------------------------------
(* The filesystem                                                          *)

Cwd == <<"work">>                          \* the working directory
PluginsDir == <<"onecode", "plugins">>     \* PluginManager.plugins_dir

IsPrefix(p, q) == Len(p) <= Len(q) /\ SubSeq(q, 1, Len(p)) = p

\* Path.resolve() without symbolic links: the absolute, normalised path.
RECURSIVE Normalise(_, _)
Normalise(base, segs) ==
    IF segs = <<>> THEN base
    ELSE LET s == Head(segs)
         IN  CASE s \in {"", "."} -> Normalise(base, Tail(segs))
               [] s = ".."        -> Normalise(IF base = <<>> THEN base
                                               ELSE SubSeq(base, 1, Len(base) - 1),
                                               Tail(segs))
               [] OTHER           -> Normalise(Append(base, s), Tail(segs))

Resolve(segs) ==
    IF segs # <<>> /\ Head(segs) = ""
    THEN Normalise(<<>>, Tail(segs))
    ELSE Normalise(Cwd, segs)

\* os.path.exists / Path.exists: the walk stats every directory it goes
\* through, so "a/b/.." exists only if a/b does.
RECURSIVE WalkExists(_, _, _)
WalkExists(dirs, base, segs) ==
    IF base # <<>> /\ base \notin dirs THEN FALSE
    ELSE IF segs = <<>> THEN TRUE
    ELSE LET s == Head(segs)
         IN  CASE s \in {"", "."} -> WalkExists(dirs, base, Tail(segs))
               [] s = ".."        -> WalkExists(dirs, IF base = <<>> THEN base
                                                      ELSE SubSeq(base, 1, Len(base) - 1),
                                                Tail(segs))
               [] OTHER           -> WalkExists(dirs, Append(base, s), Tail(segs))

PathExists(dirs, segs) ==
    IF segs # <<>> /\ Head(segs) = ""
    THEN WalkExists(dirs, <<>>, Tail(segs))
    ELSE WalkExists(dirs, Cwd, segs)

\* shutil.rmtree(path)
RmTree(dirs, segs) == {d \in dirs : ~IsPrefix(Resolve(segs), d)}

\* shutil.copytree(src, dst): dst and the whole tree under src
CopyTree(dirs, src, dst) ==
    dirs \cup {Resolve(dst) \o SubSeq(d, Len(src) + 1, Len(d)) :
                  d \in {e \in dirs : IsPrefix(src, e)}}

----------------------------------------------------------------------------
(* The registry file                                                       *)

\* A JSON object is a function from its keys.  A descriptor is an object
\* of scalar fields; a scalar at the top level is wrapped by JStr so
\* that every top-level value is a function.
EmptyObj == [k \in {} |-> TRUE]
JStr(s) == [jstr |-> s]
IsJStr(v) == DOMAIN v = {"jstr"}

\* dict without a key (del d[k]) and dict with a key set (d[k] = v)
Without(obj, k) == [x \in DOMAIN obj \ {k} |-> obj[x]]
With(obj, k, v) == [x \in DOMAIN obj \cup {k} |-> IF x = k THEN v ELSE obj[x]]

\* The file is absent, partial (a strict prefix of a document, which
\* open(..., 'w') makes zero-length to begin with) or a complete JSON
\* document.
Absent == [st |-> "absent", obj |-> EmptyObj]
Partial == [st |-> "partial", obj |-> EmptyObj]
Json(obj) == [st |-> "json", obj |-> obj]

\* the registry PluginLoader writes when it finds no file
Wrapper == [plugins |-> EmptyObj, version |-> JStr("1.0")]

\* PluginManager._load_registry: a missing or unparsable file is {}
ManagerLoad(f) == IF f.st = "json" THEN f.obj ELSE EmptyObj

\* open(registry_file, 'w') followed by json.dump: the file is truncated
\* when it is opened and written afterwards.  k says where the process is
\* killed, if it is.
SaveOutcomes == {"done", "killed"}
WriteFile(obj, k) == IF k = "done" THEN Json(obj) ELSE Partial

\* PluginManager._save_registry
ManagerSave(obj, k) == WriteFile(obj, k)

----------------------------------------------------------------------------
(* Source strings                                                          *)

Src(scheme, segs) == [scheme |-> scheme, segs |-> segs]

SrcDotAlpha == Src("", <<".", "alpha">>)              \* ./alpha
SrcAlpha    == Src("", <<"alpha">>)                   \* alpha
SrcAbsAlpha == Src("", <<"", "srv", "alpha">>)        \* /srv/alpha
SrcExtAlpha == Src("", <<"ext", "alpha">>)            \* ext/alpha
SrcUpExt    == Src("", <<".", "ext", "alpha", "..">>) \* ./ext/alpha/..
SrcOwnerBeta == Src("", <<"owner", "beta">>)          \* owner/beta
SrcUrlBeta  == Src("https://", <<"github.com", "owner", "beta.git">>)
SrcBeta     == Src("", <<"beta">>)                    \* beta

AllSources ==
    <<SrcDotAlpha, SrcBeta, SrcOwnerBeta, SrcUpExt, SrcAbsAlpha, SrcExtAlpha,
      SrcUrlBeta, SrcAlpha>>

\* the string itself, for a source that is a single name
SourceString(source) == source.segs[1]

\* source.startswith(('http://', 'https://'))
StartsWithScheme(source) == source.scheme \in {"http://", "https://"}
\* '/' in source
HasSlash(source) == source.scheme # "" \/ Len(source.segs) >= 2
\* source.startswith('.')
StartsWithDot(source) == source.scheme = "" /\ SegStartsWithDot(source.segs[1])

\* PluginManager._detect_source_type
DetectSourceType(dirs, source) ==
    IF StartsWithScheme(source) THEN "github"
    ELSE IF HasSlash(source) /\ ~StartsWithDot(source) THEN "github"
    ELSE IF PathExists(dirs, source.segs) THEN "local"
    ELSE "pypi"

\* urlparse(url).path, as path segments: what follows the host
UrlPath(url) == Tail(url.segs)

\* f"https://github.com/{source}"
GithubUrl(source) == Src("https://", <<"github.com">> \o source.segs)

\* f"https://github.com/{source}.git"
GithubCloneUrl(source) ==
    LET n == Len(source.segs)
    IN  Src("https://",
            <<"github.com">> \o SubSeq(source.segs, 1, n - 1)
              \o <<DotJoin(Append(DotSplit(source.segs[n]), "git"))>>)

\* Path(parsed.path).stem.replace('.git', '')
RepoName(url) == ReplaceDotGit(Stem(PathName(UrlPath(url))))

\* install: the plugin name generated from the source
DerivedName(dirs, source) ==
    LET type == DetectSourceType(dirs, source)
    IN  CASE type = "pypi"   -> SourceString(source)
          [] type = "github" -> RepoName(IF StartsWithScheme(source) THEN source
                                         ELSE GithubUrl(source))
          [] OTHER           -> PathName(source.segs)

----------------------------------------------------------------------------
(* The installer                                                           *)

\* Bounds of the model
MaxCalls == 6         \* how many operations one behaviour runs
MaxVersions == 2      \* how many version strings the package index can report

VersionList == <<"unknown", "1.0.0", "2.0.0", "3.0.0">>
Versions == {VersionList[i] : i \in 1..MaxVersions}

\* What the world outside the program does during one call: the external
\* tool (git, pip) exits non-zero, or a copy or a delete fails.
Externals == {"ok", "tool_fail", "io_fail"}

\* str(path) of an absolute path
AbsString(abs) == <<"">> \o abs

\* PluginManager._install_from_pypi
InstallFromPypi(package, installed, ext, ver) ==
    IF ext = "tool_fail"
    THEN [ok |-> FALSE, pkgs |-> installed, meta |-> EmptyObj]
    ELSE [ok |-> TRUE, pkgs |-> installed \cup {package},
          meta |-> [source |-> "pypi", package |-> package, version |-> ver,
                    status |-> "installed"]]

\* _install_from_github, once the clone URL is known: clone, replace the
\* managed copy, describe it
CloneInto(dirs, url, plugin_path, ext) ==
    CASE ext = "tool_fail" -> [ok |-> FALSE, fs |-> dirs, meta |-> EmptyObj]
      [] ext = "io_fail" ->
           [ok |-> FALSE,
            fs |-> IF PathExists(dirs, plugin_path) THEN RmTree(dirs, plugin_path)
                   ELSE dirs,
            meta |-> EmptyObj]
      [] OTHER ->
           [ok |-> TRUE,
            fs |-> (IF PathExists(dirs, plugin_path) THEN RmTree(dirs, plugin_path)
                    ELSE dirs) \cup {Resolve(plugin_path)},
            meta |-> [source |-> "github", url |-> url, path |-> plugin_path,
                      status |-> "installed"]]

\* the URL _install_from_github clones
CloneUrl(source) ==
    IF StartsWithScheme(source) THEN source ELSE GithubCloneUrl(source)

\* PluginManager._install_from_github
InstallFromGithub(dirs, source, ext) ==
    CloneInto(dirs, CloneUrl(source), Append(PluginsDir, RepoName(CloneUrl(source))),
              ext)

\* _install_from_local, once the source is resolved: replace the managed
\* copy by a copy of the source tree, describe it
CopyInto(dirs, removed, source_path, plugin_path, ext) ==
    IF ~PathExists(dirs, AbsString(source_path))
    THEN [ok |-> FALSE, fs |-> dirs, meta |-> EmptyObj]
    ELSE IF ext = "io_fail" \/ ~PathExists(removed, AbsString(source_path))
    THEN [ok |-> FALSE, fs |-> removed, meta |-> EmptyObj]
    ELSE [ok |-> TRUE, fs |-> CopyTree(removed, source_path, plugin_path),
          meta |-> [source |-> "local", original_path |-> AbsString(source_path),
                    path |-> plugin_path, status |-> "installed"]]

\* source_path.name of a resolved path
ResolvedName(source_path) ==
    IF source_path = <<>> THEN "" ELSE source_path[Len(source_path)]

\* the directory a Local install writes
LocalPluginPath(source) == Append(PluginsDir, ResolvedName(Resolve(source.segs)))

\* PluginManager._install_from_local
InstallFromLocal(dirs, source, ext) ==
    CopyInto(dirs,
             IF PathExists(dirs, LocalPluginPath(source))
             THEN RmTree(dirs, LocalPluginPath(source)) ELSE dirs,
             Resolve(source.segs), LocalPluginPath(source), ext)

\* A faulty upsert: registry[plugin_name].update(metadata), which keeps the
\* fields of the old descriptor that the new one does not set.
UpsertMerging(reg, name, meta) ==
    With(reg, name,
         IF name \in DOMAIN reg
         THEN [f \in DOMAIN reg[name] \cup DOMAIN meta |->
                   IF f \in DOMAIN meta THEN meta[f] ELSE reg[name][f]]
         ELSE meta)

\* install: "registry[plugin_name] = metadata"
Upsert(reg, name, meta) == With(reg, name, meta)

\* install: "plugin_name in registry and not force"
AlreadyInstalled(reg, name, force) == name \in DOMAIN reg /\ ~force

----------------------------------------------------------------------------
(* The record of the last call                                             *)

\* op ran with source src or plugin name name, with force or confirm = flag,
\* and ended res; ver is the version the package index reported to an
\* install, out the value a loader call returned
NoSrc == Src("", <<>>)
Call(op, source, name, flag, res) ==
    [op |-> op, src |-> source, name |-> name, flag |-> flag, ver |-> "",
     res |-> res, out |-> {}]

\* every action is one more operation
Tick == ncalls < MaxCalls /\ ncalls' = ncalls + 1

----------------------------------------------------------------------------
(* Initial state: a checkout in which nothing was ever run                 *)

InitDirs ==
    {<<"work">>, <<"work", "onecode">>, <<"work", "onecode", "plugins">>,
     <<"work", "alpha">>, <<"work", "ext">>, <<"work", "ext", "alpha">>,
     <<"srv">>, <<"srv", "alpha">>}

NoLoader == [noloader |-> TRUE]

Init ==
    /\ file = Absent
    /\ fs = InitDirs
    /\ pkgs = {}
    /\ registry = NoLoader
    /\ loaded = EmptyObj
    /\ call = Call("none", NoSrc, "", FALSE, "ok")
    /\ ncalls = 0

----------------------------------------------------------------------------
(* PluginManager                                                           *)

\* PluginManager.__init__ -> _ensure_registry, which does something only
\* when there is no registry file
ManagerInit(k) ==
    /\ Tick
    /\ registry = NoLoader
    /\ file.st = "absent"
    /\ file' = ManagerSave(EmptyObj, k)
    /\ call' = Call("manager_init", NoSrc, "", FALSE,
                    IF k = "done" THEN "ok" ELSE "killed")
    /\ UNCHANGED <<fs, pkgs, registry, loaded>>

\* A PluginManager exists once its constructor has run, which leaves a
\* registry file behind; the manager keeps no other state.  One command
\* runs in one process, after the loader's start-up pass is over.
Constructed == file.st # "absent" /\ registry = NoLoader

\* install: the kind-specific installation
Acquire(source_type, dirs, installed, source, ext, ver) ==
    CASE source_type = "pypi" ->
           [fs |-> dirs] @@ InstallFromPypi(SourceString(source), installed, ext, ver)
      [] source_type = "github" ->
           [pkgs |-> installed] @@ InstallFromGithub(dirs, source, ext)
      [] OTHER ->
           [pkgs |-> installed] @@ InstallFromLocal(dirs, source, ext)

\* A faulty install: the installation runs before the already-installed
\* check, so a refused install has already touched the disk or the packages.
InstallAcquiringFirst(reg, dirs, installed, plugin_name, force, r) ==
    IF ~r.ok
    THEN [res |-> "InstallFailed", name |-> plugin_name, fs |-> r.fs,
          pkgs |-> r.pkgs, save |-> FALSE, reg |-> reg]
    ELSE IF plugin_name \in DOMAIN reg /\ ~force
    THEN [res |-> "AlreadyInstalled", name |-> plugin_name, fs |-> r.fs,
          pkgs |-> r.pkgs, save |-> FALSE, reg |-> reg]
    ELSE [res |-> "ok", name |-> plugin_name, fs |-> r.fs, pkgs |-> r.pkgs,
          save |-> TRUE, reg |-> With(reg, plugin_name, r.meta)]

\* install, once the name is generated and the installation has run (r)
InstallDecide(reg, dirs, installed, plugin_name, force, r) ==
    IF AlreadyInstalled(reg, plugin_name, force)
    THEN [res |-> "AlreadyInstalled", name |-> plugin_name, fs |-> dirs,
          pkgs |-> installed, save |-> FALSE, reg |-> reg]
    ELSE IF ~r.ok
    THEN [res |-> "InstallFailed", name |-> plugin_name, fs |-> r.fs,
          pkgs |-> r.pkgs, save |-> FALSE, reg |-> reg]
    ELSE [res |-> "ok", name |-> plugin_name, fs |-> r.fs, pkgs |-> r.pkgs,
          save |-> TRUE, reg |-> Upsert(reg, plugin_name, r.meta)]

\* install, up to the point where the registry is saved: the outcome, the
\* filesystem and the packages it leaves, and the registry it saves (save).
\* The installation runs only past the already-installed check.
InstallOutcome(reg, dirs, installed, source, force, ext, ver) ==
    InstallDecide(reg, dirs, installed, DerivedName(dirs, source), force,
                  Acquire(DetectSourceType(dirs, source), dirs, installed, source,
                          ext, ver))

\* a handler's outcome o applied: the registry is saved if o says so
Apply(o, k) ==
    /\ file' = IF o.save THEN ManagerSave(o.reg, k) ELSE file
    /\ fs' = o.fs
    /\ pkgs' = o.pkgs
    /\ UNCHANGED <<registry, loaded>>

\* what the caller sees of outcome o
Result(o, k) == IF o.save /\ k # "done" THEN "killed" ELSE o.res

\* PluginManager.install
Install(source, force, ext, ver, k) ==
    /\ Tick
    /\ Constructed
    /\ \E o \in {InstallOutcome(ManagerLoad(file), fs, pkgs, source, force, ext, ver)} :
          /\ Apply(o, k)
          /\ call' = [Call("install", source, o.name, force, Result(o, k))
                          EXCEPT !.ver = ver]

\* A faulty teardown: nothing is uninstalled and nothing is deleted.
TeardownSkipped(info, dirs, installed, ext) ==
    IF IsJStr(info) \/ "source" \notin DOMAIN info
    THEN [ok |-> FALSE, res |-> "Error", fs |-> dirs, pkgs |-> installed]
    ELSE [ok |-> TRUE, res |-> "ok", fs |-> dirs, pkgs |-> installed]

\* remove: the kind-specific teardown of one descriptor.  plugin_info
\* ['source'] raises on a value that is a string or has no such key.
Teardown(info, dirs, installed, ext) ==
    IF IsJStr(info) \/ "source" \notin DOMAIN info
    THEN [ok |-> FALSE, res |-> "Error", fs |-> dirs, pkgs |-> installed]
    ELSE IF info.source = "pypi"
    THEN IF "package" \notin DOMAIN info
         THEN [ok |-> FALSE, res |-> "Error", fs |-> dirs, pkgs |-> installed]
         ELSE IF ext = "tool_fail"
         THEN [ok |-> FALSE, res |-> "RemoveFailed", fs |-> dirs, pkgs |-> installed]
         ELSE [ok |-> TRUE, res |-> "ok", fs |-> dirs,
               pkgs |-> installed \ {info.package}]
    ELSE IF "path" \in DOMAIN info /\ PathExists(dirs, info.path)
    THEN IF ext = "io_fail"
         THEN [ok |-> FALSE, res |-> "RemoveFailed", fs |-> dirs, pkgs |-> installed]
         ELSE [ok |-> TRUE, res |-> "ok", fs |-> RmTree(dirs, info.path),
               pkgs |-> installed]
    ELSE [ok |-> TRUE, res |-> "ok", fs |-> dirs, pkgs |-> installed]

\* remove: the two guards, in the order the code takes them
RemoveGuard(reg, name, confirm) ==
    IF name \notin DOMAIN reg THEN "NotInstalled"
    ELSE IF ~confirm THEN "ConfirmationRequired"
    ELSE "pass"

\* A faulty remove: the descriptor is deleted and saved before the teardown,
\* so a teardown that fails leaves the registry without it.
RemoveDeletingFirst(reg, dirs, installed, name, t) ==
    IF ~t.ok
    THEN [res |-> t.res, fs |-> dirs, pkgs |-> installed, save |-> TRUE,
          reg |-> Without(reg, name)]
    ELSE [res |-> "ok", fs |-> t.fs, pkgs |-> t.pkgs, save |-> TRUE,
          reg |-> Without(reg, name)]

\* remove, past its guards: tear down (t), then delete the descriptor
RemoveDecide(reg, dirs, installed, name, t) ==
    IF ~t.ok
    THEN [res |-> t.res, fs |-> dirs, pkgs |-> installed, save |-> FALSE,
          reg |-> reg]
    ELSE [res |-> "ok", fs |-> t.fs, pkgs |-> t.pkgs, save |-> TRUE,
          reg |-> Without(reg, name)]

\* remove, up to the point where the registry is saved
RemoveOutcome(reg, dirs, installed, name, confirm, ext) ==
    IF RemoveGuard(reg, name, confirm) # "pass"
    THEN [res |-> RemoveGuard(reg, name, confirm), fs |-> dirs, pkgs |-> installed,
          save |-> FALSE, reg |-> reg]
    ELSE RemoveDecide(reg, dirs, installed, name,
                      Teardown(reg[name], dirs, installed, ext))

\* PluginManager.remove
Remove(name, confirm, ext, k) ==
    /\ Tick
    /\ Constructed
    /\ \E o \in {RemoveOutcome(ManagerLoad(file), fs, pkgs, name, confirm, ext)} :
          /\ Apply(o, k)
          /\ call' = Call("remove", NoSrc, name, confirm, Result(o, k))

\* dict.get(key, default)
Get(obj, key, default) == IF key \in DOMAIN obj THEN obj[key] ELSE default

\* list_plugins: the entry built for one descriptor
ListEntry(name, metadata, dirs) ==
    LET base == [name |-> name,
                 source |-> Get(metadata, "source", "unknown"),
                 status |-> Get(metadata, "status", "unknown")]
        versioned == IF "version" \in DOMAIN metadata
                     THEN With(base, "version", metadata.version) ELSE base
    IN  IF "path" \in DOMAIN metadata
        THEN LET pathed == With(versioned, "path", metadata.path)
             IN  IF ~PathExists(dirs, metadata.path)
                 THEN With(pathed, "status", "missing") ELSE pathed
        ELSE versioned

\* PluginManager.list_plugins: metadata.get raises on a value that is a
\* string, and the call returns nothing then.
ListPlugins(reg, dirs) ==
    IF \E n \in DOMAIN reg : IsJStr(reg[n])
    THEN [ok |-> FALSE, entries |-> {}]
    ELSE [ok |-> TRUE, entries |-> {ListEntry(n, reg[n], dirs) : n \in DOMAIN reg}]

\* the list command
List ==
    /\ Tick
    /\ Constructed
    /\ call' = Call("list", NoSrc, "", FALSE,
                    IF ListPlugins(ManagerLoad(file), fs).ok THEN "ok" ELSE "Error")
    /\ UNCHANGED <<file, fs, pkgs, registry, loaded>>

\* PluginManager.get_plugin_info
Info(name) ==
    /\ Tick
    /\ Constructed
    /\ call' = Call("info", NoSrc, name, FALSE,
                    IF name \in DOMAIN ManagerLoad(file) THEN "ok" ELSE "NotFound")
    /\ UNCHANGED <<file, fs, pkgs, registry, loaded>>

\* refresh_registry: "'path' in metadata" is a key test on an object and a
\* substring test on a string
HasPath(metadata) == ~IsJStr(metadata) /\ "path" \in DOMAIN metadata

\* A faulty refresh: a descriptor is marked missing and never marked
\* installed again.
RefreshedEntryOneWay(metadata, dirs) ==
    IF ~HasPath(metadata) THEN metadata
    ELSE IF ~PathExists(dirs, metadata.path) THEN With(metadata, "status", "missing")
    ELSE metadata

\* refresh_registry: the status one descriptor is left with
RefreshedEntry(metadata, dirs) ==
    IF ~HasPath(metadata) THEN metadata
    ELSE IF ~PathExists(dirs, metadata.path) THEN With(metadata, "status", "missing")
    ELSE IF Get(metadata, "status", "none") = "missing"
    THEN With(metadata, "status", "installed")
    ELSE metadata

\* refresh_registry: the "updated" flag
RefreshUpdated(reg, dirs) ==
    \E n \in DOMAIN reg :
        /\ HasPath(reg[n])
        /\ \/ ~PathExists(dirs, reg[n].path)
           \/ Get(reg[n], "status", "none") = "missing"

\* PluginManager.refresh_registry
Refresh(k) ==
    /\ Tick
    /\ Constructed
    /\ \E reg \in {ManagerLoad(file)}, updated \in {RefreshUpdated(ManagerLoad(file), fs)} :
          /\ file' = IF updated
                     THEN ManagerSave([n \in DOMAIN reg |-> RefreshedEntry(reg[n], fs)], k)
                     ELSE file
          /\ call' = Call("refresh", NoSrc, "", updated,
                          IF updated /\ k # "done" THEN "killed" ELSE "ok")
    /\ UNCHANGED <<fs, pkgs, registry, loaded>>

----------------------------------------------------------------------------
(* PluginLoader                                                            *)

\* A faulty loader: it writes the wrapper over a file it could not parse,
\* as it does when there is no file.
LoaderInitRewriting(k) ==
    /\ Tick
    /\ registry = NoLoader
    /\ registry' = IF file.st = "json" THEN file.obj ELSE Wrapper
    /\ loaded' = EmptyObj
    /\ file' = IF file.st # "json" THEN WriteFile(Wrapper, k) ELSE file
    /\ call' = Call("loader_init", NoSrc, "", FALSE,
                    IF file.st # "json" /\ k # "done" THEN "killed" ELSE "ok")
    /\ UNCHANGED <<fs, pkgs>>

\* PluginLoader.__init__ -> _load_registry.  A file that cannot be parsed
\* leaves the wrapper in memory and the file alone; no file makes the
\* loader write the wrapper (PluginLoader._save_registry).
LoaderInit(k) ==
    /\ Tick
    /\ registry = NoLoader
    /\ registry' = IF file.st = "json" THEN file.obj ELSE Wrapper
    /\ loaded' = EmptyObj
    /\ file' = IF file.st = "absent" THEN WriteFile(Wrapper, k) ELSE file
    /\ call' = Call("loader_init", NoSrc, "", FALSE,
                    IF file.st = "absent" /\ k # "done" THEN "killed" ELSE "ok")
    /\ UNCHANGED <<fs, pkgs>>

\* the process that holds the loader ends
LoaderExit ==
    /\ Tick
    /\ registry # NoLoader
    /\ registry' = NoLoader
    /\ loaded' = EmptyObj
    /\ call' = Call("loader_exit", NoSrc, "", FALSE, "ok")
    /\ UNCHANGED <<file, fs, pkgs>>

----------------------------------------------------------------------------
(* The user, outside the program: a managed plugin directory is deleted or  *)
(* put back by hand.                                                        *)

\* the directories the registry's descriptors name
RecordedPaths(reg) == {reg[n].path : n \in {m \in DOMAIN reg : HasPath(reg[m])}}

EnvDelete(path) ==
    /\ Tick
    /\ PathExists(fs, path)
    /\ fs' = RmTree(fs, path)
    /\ call' = Call("env_delete", NoSrc, "", FALSE, "ok")
    /\ UNCHANGED <<file, pkgs, registry, loaded>>

EnvCreate(path) ==
    /\ Tick
    /\ ~PathExists(fs, path)
    /\ fs' = fs \cup {Resolve(path)}
    /\ call' = Call("env_create", NoSrc, "", FALSE, "ok")
    /\ UNCHANGED <<file, pkgs, registry, loaded>>

----------------------------------------------------------------------------

MaxSources == 4       \* how many of the source strings are tried
Sources == {AllSources[i] : i \in 1..MaxSources}

\* what can go wrong outside the program, by kind of source
InstallExternals(type) ==
    CASE type = "pypi"   -> {"ok", "tool_fail"}
      [] type = "github" -> {"ok", "tool_fail", "io_fail"}
      [] OTHER           -> {"ok", "io_fail"}

\* The names a command is given: every key of the registry, and one name
\* that is no key of it.
Names(reg) == DOMAIN reg \cup {"ghost"}

\* what can go wrong outside the program while a descriptor is torn down
RemoveExternals(reg, name, confirm) ==
    IF RemoveGuard(reg, name, confirm) = "pass" THEN Externals ELSE {"ok"}

Next ==
    \/ \E k \in SaveOutcomes : ManagerInit(k)
    \/ \E source \in Sources, force \in BOOLEAN :
          \E ext \in InstallExternals(DetectSourceType(fs, source)),
             ver \in IF DetectSourceType(fs, source) = "pypi" THEN Versions
                     ELSE {"unknown"},
             k \in SaveOutcomes :
             Install(source, force, ext, ver, k)
    \/ \E name \in Names(ManagerLoad(file)), confirm \in BOOLEAN :
          \E ext \in RemoveExternals(ManagerLoad(file), name, confirm),
             k \in SaveOutcomes : Remove(name, confirm, ext, k)
    \/ List
    \/ \E name \in Names(ManagerLoad(file)) : Info(name)
    \/ \E k \in SaveOutcomes : Refresh(k)
    \/ \E k \in SaveOutcomes : LoaderInit(k)
    \/ LoaderExit
    \/ \E path \in RecordedPaths(ManagerLoad(file)) : EnvDelete(path)
    \/ \E path \in RecordedPaths(ManagerLoad(file)) : EnvCreate(path)

Spec == Init /\ [][Next]_vars

----------------------------------------------------------------------------
(* Classification alone: _detect_source_type applied to every source string *)
(* on every filesystem in which each of the directories the strings could   *)
(* name exists or does not.                                                 *)

BaseDirs ==
    {<<"work">>, <<"work", "onecode">>, <<"work", "onecode", "plugins">>,
     <<"work", "ext">>, <<"work", "owner">>, <<"srv">>}

OptionalDirs ==
    {<<"work", "alpha">>, <<"work", "beta">>, <<"work", "ext", "alpha">>,
     <<"work", "owner", "beta">>, <<"srv", "alpha">>}

ClassifyInit ==
    /\ file = Absent
    /\ fs \in {BaseDirs \cup extra : extra \in SUBSET OptionalDirs}
    /\ pkgs = {}
    /\ registry = NoLoader
    /\ loaded = EmptyObj
    /\ call = Call("none", NoSrc, "", FALSE, "ok")
    /\ ncalls = 0

\* one call of _detect_source_type; its result is the call's outcome
Classify(source) ==
    /\ call' = Call("classify", source, "", FALSE, DetectSourceType(fs, source))
    /\ UNCHANGED <<file, fs, pkgs, registry, loaded, ncalls>>

ClassifyNext == \E i \in DOMAIN AllSources : Classify(AllSources[i])

SpecClassify == ClassifyInit /\ [][ClassifyNext]_vars

----------------------------------------------------------------------------
(* Properties.  Every action records itself in call, so call' names the     *)
(* operation a step is and call the operation a state comes from.           *)

\* the outcomes that are failures reported to the caller
Failures ==
    {"AlreadyInstalled", "InstallFailed", "NotInstalled", "ConfirmationRequired",
     "RemoveFailed", "Error"}

\* C1: a call of install or remove that fails, for whatever reason (already
\* installed, not installed, confirmation required, a failed installation,
\* a failed teardown), leaves the registry file exactly as it was before
\* the call: no descriptor is added, removed or altered.
FailedCallKeepsRegistry ==
    [][(call'.op \in {"install", "remove"} /\ call'.res \in Failures)
           => file' = file]_vars

\* a remove whose teardown failed, and the descriptor is still recorded
FailedRemoveReached ==
    /\ call.op = "remove"
    /\ call.res = "RemoveFailed"
    /\ call.name \in DOMAIN ManagerLoad(file)

\* C2: install(source, force = false) of a source whose generated name has a
\* descriptor fails with AlreadyInstalled before anything is acquired (the
\* disk and the installed packages are untouched), and the registry file
\* is unchanged.
InstallExistingRefused ==
    [][(/\ call'.op = "install"
        /\ ~call'.flag
        /\ DerivedName(fs, call'.src) \in DOMAIN ManagerLoad(file))
           => (/\ call'.res = "AlreadyInstalled"
               /\ file' = file
               /\ fs' = fs
               /\ pkgs' = pkgs)]_vars

\* a refused install of a plugin whose managed directory is gone, which an
\* acquisition would have put back
RefusedInstallReached ==
    /\ call.op = "install"
    /\ call.res = "AlreadyInstalled"
    /\ call.name \in DOMAIN ManagerLoad(file)
    /\ HasPath(ManagerLoad(file)[call.name])
    /\ ~PathExists(fs, ManagerLoad(file)[call.name].path)

\* C3: remove(name, confirm = false) fails with ConfirmationRequired for
\* every name, recorded or not; NotInstalled comes only from a confirmed
\* remove.
UnconfirmedRemoveAsksFirst ==
    /\ (call.op = "remove" /\ ~call.flag) => call.res = "ConfirmationRequired"
    /\ (call.op = "remove" /\ call.res = "NotInstalled") => call.flag

\* the source string names something that exists on disk
SourceOnDisk(dirs, source) == source.scheme = "" /\ PathExists(dirs, source.segs)

\* the source string is a URL or has the form the code takes for the
\* owner/name shorthand
LooksRemote(source) ==
    StartsWithScheme(source) \/ (HasSlash(source) /\ ~StartsWithDot(source))

\* C4: a source that exists on disk is classified local, an existing
\* relative owner/name directory and an existing absolute path included
\* (existence is tested before the shorthand pattern); a source that does
\* not exist is github if it is a URL or has the shorthand form, and pypi
\* otherwise.
ClassifyChecksDiskFirst ==
    call.op = "classify" =>
        call.res = (IF SourceOnDisk(fs, call.src) THEN "local"
                    ELSE IF LooksRemote(call.src) THEN "github"
                    ELSE "pypi")

\* a local install's descriptor for a plugin stored under name
LocalDescriptorOf(d, name) ==
    /\ Get(d, "source", "none") = "local"
    /\ Get(d, "path", <<>>) = Append(PluginsDir, name)

\* C5: after a successful install the registry holds a descriptor under the
\* generated name with status installed (for a local source: source local
\* and path = managed root / name), every other descriptor is unchanged, and
\* a list() that follows has exactly one entry with that name.
InstallRecordsDescriptor ==
    [][(call'.op = "install" /\ call'.res = "ok")
           => (/\ file'.st = "json"
               /\ DOMAIN file'.obj = DOMAIN ManagerLoad(file) \cup {call'.name}
               /\ Get(file'.obj[call'.name], "status", "none") = "installed"
               /\ DetectSourceType(fs, call'.src) = "local"
                     => LocalDescriptorOf(file'.obj[call'.name], call'.name)
               /\ \A m \in DOMAIN ManagerLoad(file) \ {call'.name} :
                     file'.obj[m] = ManagerLoad(file)[m]
               /\ ListPlugins(file'.obj, fs').ok
               /\ Cardinality({e \in ListPlugins(file'.obj, fs').entries :
                                  e.name = call'.name}) = 1)]_vars

\* the descriptor a source gives rise to: its kind, its origin and the
\* version the package index reported, and no other field
DescribesSource(d, dirs, source, ver) ==
    CASE DetectSourceType(dirs, source) = "pypi" ->
           /\ DOMAIN d = {"source", "package", "version", "status"}
           /\ d.source = "pypi"
           /\ d.package = SourceString(source)
           /\ d.version = ver
      [] DetectSourceType(dirs, source) = "github" ->
           /\ DOMAIN d = {"source", "url", "path", "status"}
           /\ d.source = "github"
           /\ d.url = CloneUrl(source)
      [] OTHER ->
           /\ DOMAIN d = {"source", "original_path", "path", "status"}
           /\ d.source = "local"
           /\ d.original_path = AbsString(Resolve(source.segs))

\* C6: install(source, force = true) that succeeds on a name N the
\* registry already holds leaves exactly one descriptor under N, and its
\* source kind, origin and version are those of the new source: nothing of
\* the old descriptor is kept.
ForcedInstallReplaces ==
    [][(/\ call'.op = "install"
        /\ call'.flag
        /\ call'.res = "ok"
        /\ call'.name \in DOMAIN ManagerLoad(file))
           => (/\ file'.st = "json"
               /\ DOMAIN file'.obj = DOMAIN ManagerLoad(file)
               /\ DescribesSource(file'.obj[call'.name], fs, call'.src, call'.ver)
               /\ file'.obj[call'.name].status = "installed")]_vars

\* a forced install that replaced a package-index descriptor, whose package
\* is still installed, by a github one
ForcedReplaceReached ==
    /\ call.op = "install"
    /\ call.flag
    /\ call.res = "ok"
    /\ call.name \in pkgs
    /\ file.st = "json"
    /\ file.obj[call.name].source = "github"

\* descriptor d is torn down: its package is not installed, or the
\* directory it names does not exist
TornDown(d, dirs, installed) ==
    IF Get(d, "source", "none") = "pypi"
    THEN Get(d, "package", "") \notin installed
    ELSE "path" \in DOMAIN d => ~PathExists(dirs, d.path)

\* C7: a confirmed remove of a recorded name tears the plugin down first
\* (the package is uninstalled; the directory a local or github descriptor
\* names no longer exists) and only then deletes the descriptor: whenever a
\* remove takes the name out of the registry the teardown has happened, and
\* after a successful call the name is gone and every other descriptor is
\* as it was.
RemoveTearsDownThenDeletes ==
    [][call'.op = "remove"
           => (/\ (/\ call'.name \in DOMAIN ManagerLoad(file)
                   /\ call'.name \notin DOMAIN ManagerLoad(file'))
                      => TornDown(ManagerLoad(file)[call'.name], fs', pkgs')
               /\ call'.res = "ok"
                      => (/\ call'.flag
                          /\ call'.name \in DOMAIN ManagerLoad(file)
                          /\ file' = Json(Without(ManagerLoad(file), call'.name))))]_vars

\* a successful remove of the local plugin alpha, after which its managed
\* directory is gone and another descriptor is still recorded
RemoveReached ==
    /\ call.op = "remove"
    /\ call.res = "ok"
    /\ call.name = "alpha"
    /\ ~PathExists(fs, Append(PluginsDir, "alpha"))
    /\ ManagerLoad(file) # EmptyObj

\* C8: right after refresh(), every descriptor that names a directory has
\* status missing if the directory does not exist and installed if it
\* does, nothing else of it is changed, and a descriptor that names no
\* directory is not changed at all.
RefreshMatchesDisk ==
    [][(call'.op = "refresh" /\ call'.res = "ok")
           => (/\ DOMAIN ManagerLoad(file') = DOMAIN ManagerLoad(file)
               /\ \A n \in DOMAIN ManagerLoad(file) :
                     IF HasPath(ManagerLoad(file)[n])
                     THEN /\ ManagerLoad(file')[n] =
                               With(ManagerLoad(file)[n], "status",
                                    Get(ManagerLoad(file')[n], "status", "none"))
                          /\ Get(ManagerLoad(file')[n], "status", "none") =
                               (IF PathExists(fs', ManagerLoad(file)[n].path)
                                THEN "installed" ELSE "missing")
                     ELSE ManagerLoad(file')[n] = ManagerLoad(file)[n])]_vars

\* a refresh that changed the registry and left every descriptor that
\* names a directory installed: one of them was missing before it
RefreshBackReached ==
    /\ call.op = "refresh"
    /\ call.res = "ok"
    /\ call.flag
    /\ \E n \in DOMAIN ManagerLoad(file) : HasPath(ManagerLoad(file)[n])
    /\ \A n \in DOMAIN ManagerLoad(file) :
          HasPath(ManagerLoad(file)[n])
              => (/\ ManagerLoad(file)[n].status = "installed"
                  /\ PathExists(fs, ManagerLoad(file)[n].path))

\* C9: list() returns one entry per descriptor, reports missing every
\* descriptor whose directory does not exist, whatever status is stored,
\* and leaves the registry file alone.
ListReportsLiveStatus ==
    [][call'.op = "list"
           => (/\ file' = file
               /\ call'.res = "ok"
               /\ Cardinality(ListPlugins(ManagerLoad(file), fs).entries) =
                     Cardinality(DOMAIN ManagerLoad(file))
               /\ \A n \in DOMAIN ManagerLoad(file) :
                     \E e \in ListPlugins(ManagerLoad(file), fs).entries :
                        /\ e.name = n
                        /\ (HasPath(ManagerLoad(file)[n])
                            /\ ~PathExists(fs, ManagerLoad(file)[n].path))
                               => e.status = "missing")]_vars

\* C10: the registry file is never truncated or partially written,
\* wherever a process is killed while it saves: the file holds its
\* previous content in full or the new content in full.
SaveIsAtomic == file.st # "partial"

----------------------------------------------------------------------------
(* A fresh checkout: no registry file, or a zero-length one, and only       *)
(* constructions and read commands after it.                                *)

\* the local source directory may or may not be there
FreshDirs == {InitDirs, InitDirs \ {<<"work", "alpha">>}}

FreshInit ==
    /\ file \in {Absent, Partial}
    /\ fs \in FreshDirs
    /\ pkgs = {}
    /\ registry = NoLoader
    /\ loaded = EmptyObj
    /\ call = Call("none", NoSrc, "", FALSE, "ok")
    /\ ncalls = 0

FreshNext ==
    \/ \E k \in SaveOutcomes : ManagerInit(k)
    \/ \E k \in SaveOutcomes : LoaderInit(k)
    \/ LoaderExit
    \/ List
    \/ \E name \in Names(ManagerLoad(file)) : Info(name)
    \/ \E k \in SaveOutcomes : Refresh(k)

SpecFresh == FreshInit /\ [][FreshNext]_vars

\* C11: from no registry file or a zero-length one, whatever the order in
\* which the loader and the manager were constructed, list() raises
\* nothing and returns no entry, info(name) reports not-found for every
\* name, and refresh() raises nothing.
FreshRegistryIsEmpty ==
    /\ call.op = "list"
          => (/\ call.res = "ok"
              /\ ListPlugins(ManagerLoad(file), fs).entries = {})
    /\ call.op = "info" => call.res = "NotFound"
    /\ call.op = "refresh" => call.res # "Error"

----------------------------------------------------------------------------
(* Loading                                                                  *)

\* the plugin names the loader reads in its registry: the keys of the inner
\* map when the registry has the wrapper key, the keys themselves otherwise
LoaderDescriptors(reg) ==
    IF "plugins" \in DOMAIN reg THEN DOMAIN reg["plugins"] ELSE DOMAIN reg

IsWrapper(f) == f.st = "json" /\ "plugins" \in DOMAIN f.obj
WrapperKeys == {"plugins", "version"}

\* the operations that load the registry file
LoadOps == {"loader_init", "install", "remove", "list", "info", "refresh"}

\* C13: the first load that touches a wrapper-shaped registry file rewrites
\* it to the flat shape, and no manager operation takes the wrapper keys
\* plugins and version for plugin names: list() raises nothing on them,
\* info and remove do not find them.
WrapperRewrittenOnLoad ==
    [][(IsWrapper(file) /\ call'.op \in LoadOps)
           => (/\ ~IsWrapper(file')
               /\ call'.op = "list" => call'.res = "ok"
               /\ (call'.op = "info" /\ call'.name \in WrapperKeys)
                     => call'.res = "NotFound"
               /\ (call'.op = "remove" /\ call'.name \in WrapperKeys /\ call'.flag)
                     => call'.res = "NotInstalled")]_vars

----------------------------------------------------------------------------
(* The plugin packages under the plugins directory.  What a directory entry *)
(* holds goes by its name: the entry is a directory or a file, it has an    *)
(* __init__.py, it has a plugin.py, importing plugin.py raises, the module  *)
(* defines a BasePlugin subclass, and what that class declares and does.    *)

Pkg(isdir, init_py, plugin_py, import, class, initialize) ==
    [isdir |-> isdir, init_py |-> init_py, plugin_py |-> plugin_py,
     import |-> import, class |-> class, initialize |-> initialize,
     cleanup |-> "ok", name |-> "", version |-> "1.0.0", deps |-> <<>>]

Package(n) ==
    CASE n = "nav"    -> [Pkg(TRUE, TRUE, TRUE, "ok", TRUE, "true") EXCEPT
                             !.name = "nav"]
      [] n = "arm"    -> [Pkg(TRUE, TRUE, TRUE, "ok", TRUE, "true") EXCEPT
                             !.name = "arm", !.version = "2.0.0",
                             !.deps = <<"nav", "grip">>, !.cleanup = "raises"]
      [] n = "cam"    -> [Pkg(TRUE, TRUE, TRUE, "ok", TRUE, "true") EXCEPT
                             !.name = "CamPlugin", !.deps = <<"nav">>]
      [] n = "lazy"   -> Pkg(TRUE, TRUE, TRUE, "ok", TRUE, "false")
      [] n = "crash"  -> Pkg(TRUE, TRUE, TRUE, "ok", TRUE, "raises")
      [] n = "broken" -> Pkg(TRUE, TRUE, TRUE, "raises", FALSE, "true")
      [] n = "empty"  -> Pkg(TRUE, TRUE, TRUE, "ok", FALSE, "true")
      [] n = "bare"   -> Pkg(TRUE, TRUE, FALSE, "ok", FALSE, "true")
      [] n = "loose"  -> [Pkg(TRUE, FALSE, TRUE, "ok", TRUE, "true") EXCEPT
                             !.name = "loose"]
      [] n = "_private" -> [Pkg(TRUE, TRUE, TRUE, "ok", TRUE, "true") EXCEPT
                               !.name = "_private"]
      [] n = "__pycache__" -> Pkg(TRUE, FALSE, FALSE, "ok", FALSE, "true")
      [] n = "notes"  -> Pkg(FALSE, FALSE, FALSE, "ok", FALSE, "true")
      [] n = "beta"   -> [Pkg(TRUE, TRUE, TRUE, "ok", TRUE, "true") EXCEPT
                             !.name = "beta"]
      [] OTHER        -> [Pkg(TRUE, FALSE, TRUE, "ok", TRUE, "true") EXCEPT
                             !.name = n]

PackageNames ==
    {"nav", "arm", "cam", "lazy", "crash", "broken", "empty", "bare", "loose",
     "_private", "__pycache__", "notes"}

\* item.name.startswith('_')
NameStartsWithUnderscore(n) == n \in {"_private", "__pycache__"}

\* plugins_dir.iterdir(): the names of the entries of the plugins directory
Entries(dirs) ==
    {d[Len(d)] : d \in {e \in dirs : /\ Len(e) = Len(Resolve(PluginsDir)) + 1
                                      /\ IsPrefix(Resolve(PluginsDir), e)}}

\* PluginLoader.discover_plugins
DiscoverPlugins(dirs) ==
    IF ~PathExists(dirs, PluginsDir) THEN {}
    ELSE {n \in Entries(dirs) : /\ Package(n).isdir
                                /\ ~NameStartsWithUnderscore(n)
                                /\ n # "__pycache__"
                                /\ Package(n).init_py}

\* the instance plugin_class() of the class found in plugins/<n>/plugin.py;
\* cleaned says whether its cleanup() was ever invoked
Instance(n) ==
    [dir |-> n, name |-> Package(n).name, version |-> Package(n).version,
     deps |-> Package(n).deps, cleanup |-> Package(n).cleanup,
     initialize |-> Package(n).initialize, cleaned |-> FALSE]

\* A faulty load_plugin: the instance is put in the active-plugin map
\* whatever initialize() returned.
LoadStopsIgnoringRefusal(dirs, n) ==
    IF ~PathExists(dirs, Append(PluginsDir, n)) THEN "no_dir"
    ELSE IF ~Package(n).plugin_py THEN "no_module"
    ELSE IF Package(n).import = "raises" THEN "raised"
    ELSE IF ~Package(n).class THEN "no_class"
    ELSE IF Package(n).initialize = "raises" THEN "raised"
    ELSE "activate"

\* load_plugin up to the call of initialize(): where it gives up, if it does
LoadStops(dirs, n) ==
    IF ~PathExists(dirs, Append(PluginsDir, n)) THEN "no_dir"
    ELSE IF ~Package(n).plugin_py THEN "no_module"
    ELSE IF Package(n).import = "raises" THEN "raised"
    ELSE IF ~Package(n).class THEN "no_class"
    ELSE IF Package(n).initialize = "raises" THEN "raised"
    ELSE IF Package(n).initialize = "false" THEN "refused"
    ELSE "activate"

\* the descriptor _update_registry writes for a plugin directory
LoaderDescriptor(n, version) ==
    [source |-> "local", path |-> Append(PluginsDir, n), version |-> version,
     status |-> "installed"]

\* registry[plugin_name].update({source, path, status})
UpdateFields(d, n) ==
    With(With(With(d, "source", "local"), "path", Append(PluginsDir, n)),
         "status", "installed")

\* PluginLoader._update_registry, up to its save: the registry it leaves in
\* memory.  A wrapper-shaped registry is replaced by the migrated inner
\* map, and plugin_name is not added to it.
UpdateRegistry(reg, n, version) ==
    IF "plugins" \notin DOMAIN reg
    THEN IF n \in DOMAIN reg
         THEN IF "source" \notin DOMAIN reg[n]
              THEN With(reg, n, UpdateFields(reg[n], n))
              ELSE reg
         ELSE With(reg, n, LoaderDescriptor(n, version))
    ELSE [m \in DOMAIN reg["plugins"] |->
              LoaderDescriptor(m, Get(reg["plugins"][m], "version", "1.0.0"))]

\* _update_registry raises when the value under plugin_name is a string
UpdateRaises(reg, n) ==
    "plugins" \notin DOMAIN reg /\ n \in DOMAIN reg /\ IsJStr(reg[n])

\* The loader's memory: the active-plugin map, the registry, and whether
\* the registry was saved (saved) since the memory st was taken.
Memory(active, reg, saved) == [loaded |-> active, registry |-> reg, saved |-> saved]

\* PluginLoader.load_plugin on memory st: the memory it leaves, and the
\* instance it returns (ret = TRUE) or None
LoadPluginOn(st, dirs, n) ==
    IF LoadStops(dirs, n) # "activate"
    THEN [st |-> st, ret |-> FALSE]
    ELSE IF UpdateRaises(st.registry, n)
    THEN [st |-> Memory(With(st.loaded, n, Instance(n)), st.registry, st.saved),
          ret |-> FALSE]
    ELSE [st |-> Memory(With(st.loaded, n, Instance(n)),
                        UpdateRegistry(st.registry, n, Instance(n).version), TRUE),
          ret |-> TRUE]

\* A faulty load_all_plugins: the first candidate that fails to load ends
\* the loop, as an exception that load_plugin let through would.
RECURSIVE LoadAllStopping(_, _, _)
LoadAllStopping(st, dirs, order) ==
    IF order = <<>> THEN st
    ELSE IF Head(order) \in DOMAIN st.loaded
    THEN LoadAllStopping(st, dirs, Tail(order))
    ELSE IF ~LoadPluginOn(st, dirs, Head(order)).ret
    THEN LoadPluginOn(st, dirs, Head(order)).st
    ELSE LoadAllStopping(LoadPluginOn(st, dirs, Head(order)).st, dirs, Tail(order))

\* PluginLoader.load_all_plugins: the candidates are loaded one after the
\* other, in the order iterdir gave them, those already active left out
RECURSIVE LoadAllOn(_, _, _)
LoadAllOn(st, dirs, order) ==
    IF order = <<>> THEN st
    ELSE IF Head(order) \in DOMAIN st.loaded
    THEN LoadAllOn(st, dirs, Tail(order))
    ELSE LoadAllOn(LoadPluginOn(st, dirs, Head(order)).st, dirs, Tail(order))

\* the orders in which iterdir can give a set of names
Orders(S) ==
    {o \in [1..Cardinality(S) -> S] : \A i, j \in 1..Cardinality(S) :
                                          i # j => o[i] # o[j]}


\* A faulty validate_dependencies: only the first declared dependency is
\* looked up.
ValidateDependenciesFirstOnly(deps, available) ==
    IF deps = <<>> THEN TRUE
    ELSE Head(deps) \in available

\* BasePlugin.validate_dependencies: False at the first declared dependency
\* that is not a key of available_plugins
RECURSIVE ValidateDependencies(_, _)
ValidateDependencies(deps, available) ==
    IF deps = <<>> THEN TRUE
    ELSE IF Head(deps) \notin available THEN FALSE
    ELSE ValidateDependencies(Tail(deps), available)

\* the list `missing` that validate_plugin_dependencies builds for one plugin
RECURSIVE MissingDeps(_, _)
MissingDeps(deps, available) ==
    IF deps = <<>> THEN <<>>
    ELSE IF Head(deps) \notin available
    THEN <<Head(deps)>> \o MissingDeps(Tail(deps), available)
    ELSE MissingDeps(Tail(deps), available)

\* PluginLoader.validate_plugin_dependencies: the items of the dict returned
ValidatePluginDependencies(active) ==
    {<<n, MissingDeps(active[n].deps, DOMAIN active)>> :
        n \in {m \in DOMAIN active :
                  /\ ~ValidateDependencies(active[m].deps, DOMAIN active)
                  /\ MissingDeps(active[m].deps, DOMAIN active) # <<>>}}

\* A faulty unload_plugin: what cleanup() raises reaches the caller.
UnloadPluginPropagating(active, n) ==
    IF n \notin DOMAIN active THEN [loaded |-> active, ret |-> "false"]
    ELSE IF active[n].cleanup = "raises"
    THEN [loaded |-> With(active, n, [active[n] EXCEPT !.cleaned = TRUE]),
          ret |-> "raised"]
    ELSE [loaded |-> Without(active, n), ret |-> "true"]

\* PluginLoader.unload_plugin on the active-plugin map: the map it leaves
\* and how it ends (it returns True or False, or an exception leaves it)
UnloadPlugin(active, n) ==
    IF n \notin DOMAIN active THEN [loaded |-> active, ret |-> "false"]
    ELSE IF active[n].cleanup = "raises"
    THEN [loaded |-> With(active, n, [active[n] EXCEPT !.cleaned = TRUE]),
          ret |-> "false"]
    ELSE [loaded |-> Without(active, n), ret |-> "true"]

----------------------------------------------------------------------------
(* The loader at work: one process constructs a PluginLoader and calls its  *)
(* methods on a plugins directory that holds some of the packages.          *)

MaxPlugins == 2

\* a loader exists and its process was not killed
LoaderAlive == registry # NoLoader /\ call.res # "killed"

\* PluginLoader._save_registry after an operation that left memory st
LoaderSave(st, k) == IF st.saved THEN WriteFile(st.registry, k) ELSE file

\* the names load_plugin, unload_plugin and get_plugin are called with
LoaderNames(dirs) == Entries(dirs) \cup {"ghost"}

Discover ==
    /\ LoaderAlive
    /\ call' = [Call("discover", NoSrc, "", FALSE, "ok") EXCEPT
                   !.out = DiscoverPlugins(fs)]
    /\ UNCHANGED <<file, fs, pkgs, registry, loaded, ncalls>>

LoadPlugin(n, k) ==
    /\ LoaderAlive
    /\ \E r \in {LoadPluginOn(Memory(loaded, registry, FALSE), fs, n)} :
          /\ k = "killed" => r.st.saved
          /\ loaded' = r.st.loaded
          /\ registry' = r.st.registry
          /\ file' = LoaderSave(r.st, k)
          /\ call' = Call("load", NoSrc, n, FALSE,
                          IF k = "killed" THEN "killed"
                          ELSE IF r.ret THEN "ok" ELSE "none")
    /\ UNCHANGED <<fs, pkgs, ncalls>>

\* load_all_plugins that runs to its end
LoadAll(order) ==
    /\ LoaderAlive
    /\ \E st \in {LoadAllOn(Memory(loaded, registry, FALSE), fs, order)} :
          /\ loaded' = st.loaded
          /\ registry' = st.registry
          /\ file' = LoaderSave(st, "done")
          /\ call' = [Call("load_all", NoSrc, "", FALSE, "ok") EXCEPT
                         !.out = DOMAIN st.loaded]
    /\ UNCHANGED <<fs, pkgs, ncalls>>

\* load_all_plugins whose process is killed in the save that follows the
\* activation of the cut-th candidate
LoadAllKilled(order, cut) ==
    /\ LoaderAlive
    /\ \E prev \in {LoadAllOn(Memory(loaded, registry, FALSE), fs,
                              SubSeq(order, 1, cut - 1))} :
          /\ order[cut] \notin DOMAIN prev.loaded
          /\ \E r \in {LoadPluginOn(prev, fs, order[cut])} :
                /\ r.ret
                /\ loaded' = r.st.loaded
                /\ registry' = r.st.registry
                /\ file' = Partial
                /\ call' = Call("load_all", NoSrc, order[cut], FALSE, "killed")
    /\ UNCHANGED <<fs, pkgs, ncalls>>

Unload(n) ==
    /\ LoaderAlive
    /\ loaded' = UnloadPlugin(loaded, n).loaded
    /\ call' = Call("unload", NoSrc, n, UnloadPlugin(loaded, n).ret = "true",
                    IF UnloadPlugin(loaded, n).ret = "raised" THEN "Error" ELSE "ok")
    /\ UNCHANGED <<file, fs, pkgs, registry, ncalls>>

\* get_plugin
GetPlugin(n) ==
    /\ LoaderAlive
    /\ call' = [Call("get_plugin", NoSrc, n, FALSE,
                     IF n \in DOMAIN loaded THEN "ok" ELSE "none") EXCEPT
                   !.out = DOMAIN loaded \cap {n}]
    /\ UNCHANGED <<file, fs, pkgs, registry, loaded, ncalls>>

\* list_loaded_plugins
ListLoaded ==
    /\ LoaderAlive
    /\ call' = [Call("list_loaded", NoSrc, "", FALSE, "ok") EXCEPT
                   !.out = DOMAIN loaded]
    /\ UNCHANGED <<file, fs, pkgs, registry, loaded, ncalls>>

Validate ==
    /\ LoaderAlive
    /\ call' = [Call("validate", NoSrc, "", FALSE, "ok") EXCEPT
                   !.out = ValidatePluginDependencies(loaded)]
    /\ UNCHANGED <<file, fs, pkgs, registry, loaded, ncalls>>

\* the packages with an __init__.py, which load_all_plugins tries
LoaderPackages == {n \in PackageNames : Package(n).init_py /\ n # "_private"}

\* the dicts a caller hands to validate_dependencies: their keys
Availables == SUBSET {"nav", "grip"}

\* plugin.validate_dependencies(available) on an active plugin
ValidateOne(n, available) ==
    /\ LoaderAlive
    /\ n \in DOMAIN loaded
    /\ call' = [Call("validate_one", NoSrc, n,
                     ValidateDependencies(loaded[n].deps, available), "ok") EXCEPT
                   !.out = available]
    /\ UNCHANGED <<file, fs, pkgs, registry, loaded, ncalls>>

\* the plugins directories: at most MaxPlugins of these packages
Trees == {t \in SUBSET LoaderPackages : Cardinality(t) <= MaxPlugins}

\* a descriptor the manager recorded for nav, installed from a repository
NavDescriptor ==
    [source |-> "github", url |-> "https://github.com/owner/nav.git",
     path |-> Append(PluginsDir, "nav"), status |-> "installed"]

\* the registry files the first loader can find: none, or one the manager
\* wrote (a loader that follows finds what the one before left)
LoaderFiles == {Absent, Json([nav |-> NavDescriptor])}

LoaderSpecInit ==
    /\ file \in LoaderFiles
    /\ \E t \in Trees : fs = InitDirs \cup {Resolve(Append(PluginsDir, n)) : n \in t}
    /\ pkgs = {}
    /\ registry = NoLoader
    /\ loaded = EmptyObj
    /\ call = Call("none", NoSrc, "", FALSE, "ok")
    /\ ncalls = 0

LoaderNext ==
    \/ \E k \in SaveOutcomes : LoaderInit(k)
    \/ LoaderExit
    \/ Discover
    \/ \E n \in LoaderNames(fs), k \in SaveOutcomes : LoadPlugin(n, k)
    \/ \E order \in Orders(DiscoverPlugins(fs)) : LoadAll(order)
    \/ \E order \in Orders(DiscoverPlugins(fs)) :
          \E cut \in 1..Len(order) : LoadAllKilled(order, cut)
    \/ \E n \in LoaderNames(fs) : Unload(n)
    \/ \E n \in LoaderNames(fs) : GetPlugin(n)
    \/ ListLoaded
    \/ Validate
    \/ \E n \in LoaderNames(fs), available \in Availables : ValidateOne(n, available)

SpecLoader == LoaderSpecInit /\ [][LoaderNext]_vars

----------------------------------------------------------------------------
(* Discovery alone: discover_plugins on every plugins directory that holds  *)
(* some of the packages.                                                    *)

\* the packages that tell the conditions of discover_plugins apart
DiscoverPackages == (PackageNames \ LoaderPackages) \cup {"nav", "bare"}

DiscoverInit ==
    /\ file = Absent
    /\ \E t \in SUBSET DiscoverPackages :
          fs = InitDirs \cup {Resolve(Append(PluginsDir, n)) : n \in t}
    /\ pkgs = {}
    /\ registry = NoLoader
    /\ loaded = EmptyObj
    /\ call = Call("none", NoSrc, "", FALSE, "ok")
    /\ ncalls = 0

DiscoverNext ==
    \/ \E k \in SaveOutcomes : LoaderInit(k)
    \/ LoaderExit
    \/ Discover

SpecDiscover == DiscoverInit /\ [][DiscoverNext]_vars


----------------------------------------------------------------------------
(* Properties of the loader                                                 *)

\* the candidates of a plugins directory that load_plugin can activate
Activable(dirs) == {n \in DiscoverPlugins(dirs) : LoadStops(dirs, n) = "activate"}

\* C14: load_all_plugins never raises and isolates failures: of the
\* candidates, those whose plugin.py is missing or fails to import or defines
\* no plugin class, or whose initialize() returns false or raises, are not in
\* the map returned, and every candidate that can be activated is in it.
LoadAllIsolatesFailures ==
    [][call'.op = "load_all"
          => (/\ call'.res \in {"ok", "killed"}
              /\ call'.res = "ok"
                    => call'.out \cap DiscoverPlugins(fs) = Activable(fs))]_vars

LoadAllSkippedOneReached ==
    /\ call.op = "load_all"
    /\ call.res = "ok"
    /\ \E n \in DiscoverPlugins(fs) : LoadStops(fs, n) = "raised"
    /\ \E n \in DiscoverPlugins(fs) : n \in call.out


\* the operations that return the active-plugin map or a part of it
MapOps == {"load_all", "list_loaded", "get_plugin"}

\* C15: every instance in the active-plugin map is one whose initialize()
\* returned true: a plugin whose initialize() returned false or raised is in
\* no map returned by load_all_plugins, list_loaded_plugins or get_plugin,
\* after any sequence of load_plugin, load_all_plugins and unload_plugin.
ActiveAreInitialized ==
    /\ \A n \in DOMAIN loaded : loaded[n].initialize = "true"
    /\ call.op \in MapOps => \A n \in call.out : Package(n).initialize = "true"

RefusedPluginKeptOutReached ==
    /\ call.op = "load"
    /\ Package(call.name).initialize = "false"
    /\ PathExists(fs, Append(PluginsDir, call.name))
    /\ call.res = "none"
    /\ loaded # EmptyObj


\* C16: discover returns a subdirectory if and only if it is a directory, its
\* name does not start with an underscore and is not __pycache__, and it
\* contains plugin.py; and discovery changes no loader, registry or
\* filesystem state.
DiscoverReturnsEntryPointDirs ==
    [][call'.op = "discover"
          => (/\ call'.out = {n \in Entries(fs) : /\ Package(n).isdir
                                                  /\ ~NameStartsWithUnderscore(n)
                                                  /\ n # "__pycache__"
                                                  /\ Package(n).plugin_py}
              /\ UNCHANGED <<file, fs, pkgs, registry, loaded>>)]_vars


\* C18: unload_plugin never raises, whatever cleanup() does; it returns true
\* when the plugin was active and its cleanup completed, and false when the
\* plugin was not active or its cleanup failed.
UnloadNeverRaises ==
    [][call'.op = "unload"
          => (/\ call'.res = "ok"
              /\ call'.flag <=> (/\ call'.name \in DOMAIN loaded
                                 /\ loaded[call'.name].cleanup = "ok"))]_vars

FailedCleanupReached ==
    /\ call.op = "unload"
    /\ call.name \in DOMAIN loaded
    /\ loaded[call.name].cleanup = "raises"
    /\ call.res = "ok"
    /\ ~call.flag


\* the names a plugin declares as its dependencies
Declared(plugin) == {plugin.deps[i] : i \in 1..Len(plugin.deps)}

\* C19: validate_dependencies(available) returns true if and only if every
\* declared dependency is a key of available; validate_plugin_dependencies
\* returns an entry for exactly the active plugins with a dependency that is
\* not in the active-plugin map, and the entry lists exactly the missing
\* dependency names.
DependenciesValidated ==
    /\ call.op = "validate_one"
          => (call.flag <=> Declared(loaded[call.name]) \subseteq call.out)
    /\ call.op = "validate"
          => /\ {e[1] : e \in call.out}
                   = {n \in DOMAIN loaded : Declared(loaded[n]) \ DOMAIN loaded # {}}
             /\ \A e \in call.out :
                   /\ {e[2][i] : i \in 1..Len(e[2])}
                         = Declared(loaded[e[1]]) \ DOMAIN loaded
                   /\ Len(e[2]) = Cardinality(Declared(loaded[e[1]]) \ DOMAIN loaded)
             /\ Cardinality(call.out) = Cardinality({e[1] : e \in call.out})

MissingDependencyReached ==
    /\ call.op = "validate"
    /\ \E e \in call.out : /\ Len(loaded[e[1]].deps) = 2
                           /\ Len(e[2]) = 1
    /\ \E n \in DOMAIN loaded : \A e \in call.out : e[1] # n


\* C20: after load_plugin activates a plugin, the persisted registry holds a
\* descriptor under the plugin's name with status installed, and a descriptor
\* that was there before under that name is left as it was; from every
\* registry, the one the loader creates when there is no file included.
LoadRecordsDescriptor ==
    [][(call'.op = "load" /\ call'.res = "ok")
          => (/\ file'.st = "json"
              /\ call'.name \in DOMAIN file'.obj
              /\ Get(file'.obj[call'.name], "status", "none") = "installed"
              /\ call'.name \in DOMAIN registry
                    => file'.obj[call'.name] = registry[call'.name])]_vars


----------------------------------------------------------------------------
(* The registry as text: what json.dump(registry, f, indent=2) writes and   *)
(* what json.load(f) reads.  A str is a sequence of code points, a dict a   *)
(* function from strs to values, and the file a sequence of characters.     *)

JString(s) == [kind |-> "str", s |-> s]
JObject(m) == [kind |-> "obj", m |-> m]

\* the code points of the strings: a letter, the quote, the backslash, the
\* newline and a letter outside ASCII
Quote == "\""
Backslash == "\\"
Newline == "\n"
EAcute == "eacute"

\* A faulty encoder: the quote is written as it is.
EscapeCharKeepingQuote(c) ==
    CASE c = Backslash -> <<Backslash, Backslash>>
      [] c = Newline   -> <<Backslash, "n">>
      [] c = EAcute    -> <<Backslash, "u", "0", "0", "e", "9">>
      [] OTHER         -> <<c>>

\* json.dump with ensure_ascii: what one code point of a str is written as
EscapeChar(c) ==
    CASE c = Quote     -> <<Backslash, Quote>>
      [] c = Backslash -> <<Backslash, Backslash>>
      [] c = Newline   -> <<Backslash, "n">>
      [] c = EAcute    -> <<Backslash, "u", "0", "0", "e", "9">>
      [] OTHER         -> <<c>>

RECURSIVE EscapeAll(_)
EscapeAll(s) == IF s = <<>> THEN <<>> ELSE EscapeChar(Head(s)) \o EscapeAll(Tail(s))

DumpStr(s) == <<Quote>> \o EscapeAll(s) \o <<Quote>>

\* indent=2: the spaces that open a line at nesting level lvl
Indent(lvl) == [i \in 1..(2 * lvl) |-> " "]

\* the order in which a descriptor's fields were inserted
FieldOrder == << <<"p">>, <<"v">>, <<"s">> >>

RECURSIVE KeysIn(_, _)
KeysIn(order, m) ==
    IF order = <<>> THEN <<>>
    ELSE IF Head(order) \in DOMAIN m THEN <<Head(order)>> \o KeysIn(Tail(order), m)
    ELSE KeysIn(Tail(order), m)

RECURSIVE DumpValue(_, _)
RECURSIVE DumpMembers(_, _, _)

\* a dict, its keys in insertion order: {} when empty, otherwise one member
\* per line
DumpObj(m, order, lvl) ==
    IF order = <<>> THEN <<"{", "}">>
    ELSE <<"{", Newline>> \o Indent(lvl + 1) \o DumpMembers(m, order, lvl + 1)
             \o <<Newline>> \o Indent(lvl) \o <<"}">>

DumpMembers(m, order, lvl) ==
    DumpStr(Head(order)) \o <<":", " ">> \o DumpValue(m[Head(order)], lvl)
        \o (IF Tail(order) = <<>> THEN <<>>
            ELSE <<",", Newline>> \o Indent(lvl) \o DumpMembers(m, Tail(order), lvl))

DumpValue(v, lvl) ==
    IF v.kind = "str" THEN DumpStr(v.s)
    ELSE DumpObj(v.m, KeysIn(FieldOrder, v.m), lvl)

\* json.dump(registry, f, indent=2) for a registry whose names were inserted
\* in the given order
Dump(reg, order) == DumpObj(reg.m, order, 0)

\* json.load: a parse ends with a value and the text that follows it, or
\* fails
Parsed(v, rest) == [ok |-> TRUE, val |-> v, rest |-> rest]
ParseFails == [ok |-> FALSE, val |-> JObject(<<>>), rest |-> <<>>]

RECURSIVE SkipWs(_)
SkipWs(t) ==
    IF t = <<>> THEN t
    ELSE IF Head(t) \in {" ", Newline} THEN SkipWs(Tail(t))
    ELSE t

\* the text after an opening quote, up to the closing quote
RECURSIVE ScanString(_, _)
ScanString(t, acc) ==
    IF t = <<>> THEN ParseFails
    ELSE IF Head(t) = Quote THEN Parsed(JString(acc), Tail(t))
    ELSE IF Head(t) = Newline THEN ParseFails
    ELSE IF Head(t) # Backslash THEN ScanString(Tail(t), Append(acc, Head(t)))
    ELSE IF Len(t) < 2 THEN ParseFails
    ELSE IF t[2] = Quote THEN ScanString(SubSeq(t, 3, Len(t)), Append(acc, Quote))
    ELSE IF t[2] = Backslash
    THEN ScanString(SubSeq(t, 3, Len(t)), Append(acc, Backslash))
    ELSE IF t[2] = "n" THEN ScanString(SubSeq(t, 3, Len(t)), Append(acc, Newline))
    ELSE IF t[2] = "u" /\ Len(t) >= 6
    THEN IF SubSeq(t, 3, 6) = <<"0", "0", "e", "9">>
         THEN ScanString(SubSeq(t, 7, Len(t)), Append(acc, EAcute))
         ELSE ParseFails
    ELSE ParseFails

RECURSIVE ParseValue(_)
RECURSIVE ParseMembers(_, _)

\* after a member: a closing brace ends the dict, a comma brings the next
AfterMember(acc, t) ==
    IF t = <<>> THEN ParseFails
    ELSE IF Head(t) = "}" THEN Parsed(JObject(acc), Tail(t))
    ELSE IF Head(t) = "," THEN ParseMembers(SkipWs(Tail(t)), acc)
    ELSE ParseFails

\* after a member's value: a key met again replaces the value it had
AfterValue(key, value, acc) ==
    IF ~value.ok THEN ParseFails
    ELSE AfterMember(With(acc, key, value.val), SkipWs(value.rest))

\* after a member's key: a colon and the value
AfterKey(key, acc) ==
    IF ~key.ok THEN ParseFails
    ELSE IF SkipWs(key.rest) = <<>> THEN ParseFails
    ELSE IF Head(SkipWs(key.rest)) # ":" THEN ParseFails
    ELSE AfterValue(key.val.s, ParseValue(Tail(SkipWs(key.rest))), acc)

\* the members of a dict, from the first key on
ParseMembers(t, acc) ==
    IF t = <<>> THEN ParseFails
    ELSE IF Head(t) # Quote THEN ParseFails
    ELSE AfterKey(ScanString(Tail(t), <<>>), acc)

\* after an opening brace
AfterBrace(t) ==
    IF t = <<>> THEN ParseFails
    ELSE IF Head(t) = "}" THEN Parsed(JObject(<<>>), Tail(t))
    ELSE ParseMembers(t, <<>>)

\* a value: a string or a dict
ParseValue(t) ==
    IF SkipWs(t) = <<>> THEN ParseFails
    ELSE IF Head(SkipWs(t)) = Quote THEN ScanString(Tail(SkipWs(t)), <<>>)
    ELSE IF Head(SkipWs(t)) = "{" THEN AfterBrace(SkipWs(Tail(SkipWs(t))))
    ELSE ParseFails

\* the document is the whole text
WholeText(r) == IF r.ok THEN IF SkipWs(r.rest) = <<>> THEN r ELSE ParseFails ELSE r

\* json.load(f): the document, if the text is one
JsonLoad(t) == WholeText(ParseValue(t))

\* PluginManager._load_registry on a file with text t
LoadRegistry(t) == IF JsonLoad(t).ok THEN JsonLoad(t).val ELSE JObject(<<>>)


----------------------------------------------------------------------------
(* The round trip: a manager saves the registry it holds and loads the      *)
(* file it finds.                                                           *)

MaxDescriptors == 2

\* strs with the code points that json writes in an escaped form
PlainName == <<"a">>
QuotedName == <<Quote, "b">>
SlashedName == <<"c", Backslash>>
RegistryNames == {PlainName, QuotedName, SlashedName}

\* descriptors: one field or several, values with a quote, a backslash, a
\* newline, a letter outside ASCII, and the empty str
DescriptorSamples ==
    {<<>>,
     [k \in {<<"s">>} |-> JString(<<"a">>)],
     [k \in {<<"p">>, <<"s">>} |->
         IF k = <<"p">> THEN JString(<<"a", Quote, Backslash>>)
         ELSE JString(<<>>)],
     [k \in {<<"p">>, <<"v">>} |->
         IF k = <<"p">> THEN JString(<<EAcute, Newline>>)
         ELSE JString(<<Backslash, "n">>)]}

\* the registries of at most MaxDescriptors descriptors
Registries ==
    {JObject([n \in DOMAIN d |-> JObject(d[n])]) :
        d \in UNION {[names -> DescriptorSamples] :
                        names \in {ns \in SUBSET RegistryNames :
                                      Cardinality(ns) <= MaxDescriptors}}}

\* files that were not written by json.dump: without white space, and with
\* the letter outside ASCII as it is
CompactText ==
    <<"{", Quote, "a", Quote, ":", "{", Quote, "s", Quote, ":", Quote, "a",
      Quote, "}", "}">>
RawText ==
    <<"{", " ", Quote, EAcute, Quote, " ", ":", " ", "{", " ", "}", " ", "}",
      Newline>>
HandWritten == {CompactText, RawText}

Text(t) == [st |-> "text", obj |-> t]

RoundTripInit ==
    /\ registry \in Registries
    /\ \E order \in Orders(DOMAIN registry.m) : file = Text(Dump(registry, order))
    /\ fs = InitDirs
    /\ pkgs = {}
    /\ loaded = EmptyObj
    /\ call = Call("none", NoSrc, "", FALSE, "ok")
    /\ ncalls = 0

\* a file appears that some other hand wrote
FileReplaced(t) ==
    /\ Tick
    /\ file' = Text(t)
    /\ call' = Call("replace", NoSrc, "", FALSE, "ok")
    /\ UNCHANGED <<fs, pkgs, registry, loaded>>

\* PluginManager._save_registry(registry)
SaveRegistry(order) ==
    /\ Tick
    /\ file' = Text(Dump(registry, order))
    /\ call' = Call("save", NoSrc, "", FALSE, "ok")
    /\ UNCHANGED <<fs, pkgs, registry, loaded>>

\* registry = PluginManager._load_registry()
LoadRegistryFile ==
    /\ Tick
    /\ registry' = LoadRegistry(file.obj)
    /\ call' = Call("load", NoSrc, "", JsonLoad(file.obj).ok, "ok")
    /\ UNCHANGED <<file, fs, pkgs, loaded>>

RoundTripNext ==
    \/ \E t \in HandWritten : FileReplaced(t)
    \/ \E order \in Orders(DOMAIN registry.m) : SaveRegistry(order)
    \/ LoadRegistryFile

SpecRoundTrip == RoundTripInit /\ [][RoundTripNext]_vars

\* C17: saving a registry and loading it back yields the same mapping from
\* names to descriptors, the empty one included; loading a file and saving
\* it again leaves a file with an equivalent content, no descriptor or field
\* lost or altered.
SaveLoadRoundTrip ==
    [][/\ (call.op = "save" /\ call'.op = "load")
             => (call'.flag /\ registry' = registry)
       /\ (call.op = "load" /\ call.flag /\ call'.op = "save")
             => (/\ JsonLoad(file'.obj).ok
                 /\ JsonLoad(file'.obj).val = JsonLoad(file.obj).val)]_vars

EscapedRoundTripReached ==
    /\ call.op = "load"
    /\ call.flag
    /\ DOMAIN registry.m = {QuotedName, SlashedName}
    /\ file.obj = Dump(registry, <<QuotedName, SlashedName>>)
    /\ \E n \in DOMAIN registry.m : \E f \in DOMAIN registry.m[n].m :
          registry.m[n].m[f].s = <<EAcute, Newline>>


----------------------------------------------------------------------------
(* Migration: the loader finds a registry file of the wrapper shape whose   *)
(* inner map holds entries.                                                 *)

\* entries of the legacy schema: no source and no status
LegacyEntries ==
    {[version |-> "0.9.0", package |-> "nav-tools"],
     [version |-> "0.9.0", path |-> <<"opt", "nav">>],
     [path |-> Append(PluginsDir, "nav")]}

LegacyFiles ==
    {Json([plugins |-> [n \in {"nav"} |-> e], version |-> JStr("1.0")]) :
        e \in LegacyEntries}

MigrateInit ==
    /\ file \in LegacyFiles
    /\ \E t \in Trees : fs = InitDirs \cup {Resolve(Append(PluginsDir, n)) : n \in t}
    /\ pkgs = {}
    /\ registry = NoLoader
    /\ loaded = EmptyObj
    /\ call = Call("none", NoSrc, "", FALSE, "ok")
    /\ ncalls = 0

SpecMigrate == MigrateInit /\ [][LoaderNext]_vars

\* C21: migrating a wrapper-shaped registry to the flat shape keeps every
\* entry of the inner map under its name with every field value it had
\* (path, package, version); only the fields it lacked (source, status) get
\* the defaults local and installed.
MigrationKeepsFields ==
    [][("plugins" \in DOMAIN registry /\ registry' # NoLoader
            /\ "plugins" \notin DOMAIN registry')
          => \A m \in DOMAIN registry["plugins"] :
                /\ m \in DOMAIN registry'
                /\ \A f \in DOMAIN registry["plugins"][m] :
                      /\ f \in DOMAIN registry'[m]
                      /\ registry'[m][f] = registry["plugins"][m][f]
                /\ "source" \notin DOMAIN registry["plugins"][m]
                      => Get(registry'[m], "source", "none") = "local"
                /\ "status" \notin DOMAIN registry["plugins"][m]
                      => Get(registry'[m], "status", "none") = "installed"]_vars


\* C22: after a successful Local or Remote install, the name the descriptor
\* is stored under (and that the call returns) is the final segment of the
\* descriptor's path, the directory created under the plugins directory; for
\* a Local source it is the final segment of the resolved source path.
InstallNameIsDirectoryName ==
    [][(call'.op = "install" /\ call'.res = "ok"
            /\ DetectSourceType(fs, call'.src) \in {"local", "github"})
          => (/\ call'.name \in DOMAIN file'.obj
              /\ HasPath(file'.obj[call'.name])
              /\ call'.name = ResolvedName(file'.obj[call'.name].path)
              /\ PathExists(fs', Append(PluginsDir, call'.name))
              /\ DetectSourceType(fs, call'.src) = "local"
                    => call'.name = ResolvedName(Resolve(call'.src.segs)))]_vars


\* C23: every entry of the active-plugin map is keyed by the declared name
\* of the instance: under every key k of the map that load_all_plugins
\* returns, the instance has name = k.
ActiveKeyedByDeclaredName ==
    /\ \A k \in DOMAIN loaded : loaded[k].name = k
    /\ (call.op = "load_all" /\ call.res = "ok")
          => \A k \in call.out : k \in DOMAIN loaded /\ loaded[k].name = k


\* refresh would leave some descriptor with another status than it has
StatusChanges(reg, dirs) ==
    \E n \in DOMAIN reg :
        /\ ~IsJStr(reg[n])
        /\ Get(RefreshedEntry(reg[n], dirs), "status", "none")
              # Get(reg[n], "status", "none")

\* C24: refresh reports a change and rewrites the registry file if and only
\* if the status of some descriptor after the call differs from its status
\* before; on a registry whose statuses match the filesystem it reports no
\* change and writes nothing.
RefreshWritesOnlyChanges ==
    [][call'.op = "refresh"
          => (/\ call'.flag <=> StatusChanges(ManagerLoad(file), fs)
              /\ ~StatusChanges(ManagerLoad(file), fs) => file' = file)]_vars


\* C25: every instance that was put in the active-plugin map has cleanup()
\* invoked on it before the invocation ends, by an explicit unload or when
\* the process is torn down: when the process ends, no instance is left in
\* the map whose cleanup() was never invoked.
CleanupBeforeExit ==
    [][call'.op = "loader_exit" => \A n \in DOMAIN loaded : loaded[n].cleaned]_vars


----------------------------------------------------------------------------
(* Concurrent invocations: each runs one install on the same registry file, *)
(* and the steps of install (load the registry, install and modify the copy *)
(* in memory, open the file for writing, write it) interleave.  registry    *)
(* holds, for each invocation, where it is and the copy it has in memory.   *)

MaxProcs == 2
Procs == 1..MaxProcs

Proc(pc, reg, source, name, res) ==
    [pc |-> pc, reg |-> reg, src |-> source, name |-> name, res |-> res]

\* A faulty save: the file is read again and the descriptors it holds are
\* kept next to those of the copy in memory.
SavedContentMerging(reg, f) ==
    [n \in DOMAIN reg \cup DOMAIN ManagerLoad(f) |->
        IF n \in DOMAIN reg THEN reg[n] ELSE ManagerLoad(f)[n]]

\* _save_registry(registry): json.dump writes the copy in memory, whatever
\* the file holds by then
SavedContent(reg, f) == reg

RaceInit ==
    /\ file = Json(EmptyObj)
    /\ fs = InitDirs
    /\ pkgs = {}
    /\ registry = [p \in Procs |-> Proc("start", EmptyObj, NoSrc, "", "")]
    /\ loaded = EmptyObj
    /\ call = Call("none", NoSrc, "", FALSE, "ok")
    /\ ncalls = 0

\* install: registry = self._load_registry()
RaceLoad(p, source) ==
    /\ registry[p].pc = "start"
    /\ registry' = [registry EXCEPT
                       ![p] = Proc("loaded", ManagerLoad(file), source, "", "")]
    /\ call' = Call("race_load", source, "", FALSE, "ok")
    /\ UNCHANGED <<file, fs, pkgs, loaded, ncalls>>

\* install, from the name to "registry[plugin_name] = metadata"
RaceInstall(p, force, ext, ver) ==
    /\ registry[p].pc = "loaded"
    /\ \E o \in {InstallOutcome(registry[p].reg, fs, pkgs, registry[p].src, force,
                                ext, ver)} :
          /\ fs' = o.fs
          /\ pkgs' = o.pkgs
          /\ registry' = [registry EXCEPT
                             ![p] = Proc(IF o.save THEN "saving" ELSE "done", o.reg,
                                         registry[p].src, o.name, o.res)]
          /\ call' = Call("race_install", registry[p].src, o.name, force, o.res)
    /\ UNCHANGED <<file, loaded, ncalls>>

\* _save_registry: open(self.registry_file, 'w')
RaceOpen(p) ==
    /\ registry[p].pc = "saving"
    /\ file' = Partial
    /\ registry' = [registry EXCEPT ![p].pc = "writing"]
    /\ call' = Call("race_open", registry[p].src, registry[p].name, FALSE, "ok")
    /\ UNCHANGED <<fs, pkgs, loaded, ncalls>>

\* _save_registry: json.dump(registry, f, indent=2), and install returns
RaceWrite(p) ==
    /\ registry[p].pc = "writing"
    /\ file' = Json(SavedContent(registry[p].reg, file))
    /\ registry' = [registry EXCEPT ![p].pc = "done"]
    /\ call' = Call("race_write", registry[p].src, registry[p].name, FALSE, "ok")
    /\ UNCHANGED <<fs, pkgs, loaded, ncalls>>

RaceNext ==
    \/ \E p \in Procs, source \in Sources : RaceLoad(p, source)
    \/ \E p \in Procs, force \in BOOLEAN :
          \E ext \in InstallExternals(DetectSourceType(fs, registry[p].src)),
             ver \in IF DetectSourceType(fs, registry[p].src) = "pypi" THEN Versions
                     ELSE {"unknown"} :
             RaceInstall(p, force, ext, ver)
    \/ \E p \in Procs : RaceOpen(p)
    \/ \E p \in Procs : RaceWrite(p)

SpecRace == RaceInit /\ [][RaceNext]_vars

----------------------------------------------------------------------------
(* Invocations of the command line: each constructs a PluginLoader and      *)
(* calls load_all_plugins, and then runs its command, here an install.      *)

\* the checkout, without plugins or with the plugin nav shipped in it
CliDirs == {InitDirs, InitDirs \cup {Resolve(Append(PluginsDir, "nav"))}}

CliInit ==
    /\ file = Absent
    /\ fs \in CliDirs
    /\ pkgs = {}
    /\ registry = NoLoader
    /\ loaded = EmptyObj
    /\ call = Call("none", NoSrc, "", FALSE, "ok")
    /\ ncalls = 0

CliNext ==
    \/ \E k \in SaveOutcomes : LoaderInit(k)
    \/ \E order \in Orders(DiscoverPlugins(fs)) : LoadAll(order)
    \/ \E order \in Orders(DiscoverPlugins(fs)) :
          \E cut \in 1..Len(order) : LoadAllKilled(order, cut)
    \/ LoaderExit
    \/ \E k \in SaveOutcomes : ManagerInit(k)
    \/ \E source \in Sources, force \in BOOLEAN :
          \E ext \in InstallExternals(DetectSourceType(fs, source)),
             ver \in IF DetectSourceType(fs, source) = "pypi" THEN Versions
                     ELSE {"unknown"},
             k \in SaveOutcomes :
             Install(source, force, ext, ver, k)

SpecCli == CliInit /\ [][CliNext]_vars

\* C27: a loader start-up pass (PluginLoader on an existing registry file,
\* then load_all_plugins) only adds descriptors: every descriptor the file
\* held before the pass, one written by an earlier install in particular, is
\* in the file with the same fields after the pass, whatever the shape of
\* the file.
StartupPassOnlyAdds ==
    [][(call.op = "loader_init" /\ call'.op = "load_all" /\ call'.res = "ok"
            /\ file.st = "json")
          => (/\ file'.st = "json"
              /\ \A n \in DOMAIN file.obj \ WrapperKeys :
                    /\ n \in DOMAIN file'.obj
                    /\ file'.obj[n] = file.obj[n])]_vars


\* the directories of the descriptors that a Local install recorded and
\* whose plugin.py defines a plugin class that initialize() accepts
InstalledLoadable(reg, dirs) ==
    {ResolvedName(reg[n].path) :
        n \in {m \in DOMAIN reg :
                  /\ HasPath(reg[m])
                  /\ Get(reg[m], "source", "none") = "local"
                  /\ "original_path" \in DOMAIN reg[m]
                  /\ PathExists(dirs, reg[m].path)
                  /\ LoadStops(dirs, ResolvedName(reg[m].path)) = "activate"}}

\* C29: after a successful install of a Local directory whose plugin.py
\* defines a conforming class with initialize() returning true, the next
\* start-up pass (discover_plugins, then load_all_plugins) activates the
\* plugin: it is in the active-plugin map.
InstalledPluginActivated ==
    [][(call.op = "loader_init" /\ call'.op = "load_all" /\ call'.res = "ok")
          => InstalledLoadable(ManagerLoad(file), fs) \subseteq call'.out]_vars


\* the directories under the plugins directory
Managed(dirs) == {d \in dirs : IsPrefix(Resolve(PluginsDir), d)}

\* C28: a failed install leaves the plugins directory as it was before the
\* call: a copy installed before under the same name is still on disk, so
\* the registry never describes as installed a directory that the failed
\* call deleted.
FailedInstallKeepsDirectory ==
    [][(call'.op = "install" /\ call'.res \in Failures)
          => (/\ Managed(fs') = Managed(fs)
              /\ \A n \in DOMAIN ManagerLoad(file') :
                    (/\ HasPath(ManagerLoad(file')[n])
                     /\ Get(ManagerLoad(file')[n], "status", "none") = "installed"
                     /\ PathExists(fs, ManagerLoad(file')[n].path))
                       => PathExists(fs', ManagerLoad(file')[n].path))]_vars


\* C30: in every registry and filesystem state, the status list() reports
\* for a descriptor is the status refresh() would store for it in that
\* state: they agree on installed and missing, when the directory was
\* deleted and when it was created again after being recorded as missing.
ListAgreesWithRefresh ==
    (call.op = "list" /\ call.res = "ok")
       => \A e \in ListPlugins(ManagerLoad(file), fs).entries :
             e.status = Get(RefreshedEntry(ManagerLoad(file)[e.name], fs),
                            "status", "unknown")

====
